---- MODULE Spec2Model ----
(***************************************************************************)
(* Model of the int_traits crate (src/src/lib.rs): the trait IntTraits     *)
(* with sqrt, cbrt, log, log10 and log2, implemented for the ten primitive *)
(* integer types by the macros impl_int_trait and impl_uint_trait.         *)
(*                                                                         *)
(* Every method casts the operand to f64, applies an f64 function and      *)
(* casts the result back with `as`.  TLC's integers are 32 bits wide, so   *)
(* 64-bit operands and 53-bit significands are kept as little-endian       *)
(* sequences of 15-bit limbs (a "Big"; zero is the empty sequence).        *)
(*                                                                         *)
(* f64 arithmetic follows IEEE-754 binary64, round to nearest, ties to     *)
(* even: the int -> f64 cast, sqrt and the division are computed bit for   *)
(* bit.  ln and cbrt come from the platform's libm; they are tabulated     *)
(* with the values of the x86_64-unknown-linux-gnu target (glibc 2.36).    *)
(* The f64 -> int cast truncates toward zero, saturates at the bounds of   *)
(* the target type and maps NaN to 0.                                      *)
(***************************************************************************)
EXTENDS Integers, Sequences, FiniteSets, TLC

(***************************************************************************)
(* Naturals of any size                                                    *)
(***************************************************************************)
LimbBase == 2 ^ 15

Zero == << >>

RECURSIVE Norm(_)
\* Drop the high-order zero limbs.
Norm(a) ==
    IF a = << >> THEN << >>
    ELSE IF a[Len(a)] = 0 THEN Norm(SubSeq(a, 1, Len(a) - 1))
    ELSE a

\* A machine-size natural (below 2^30) as a Big.
N(k) ==
    IF k = 0 THEN << >>
    ELSE IF k < LimbBase THEN << k >>
    ELSE << k % LimbBase, k \div LimbBase >>

RECURSIVE CmpFrom(_, _, _)
CmpFrom(a, b, i) ==
    IF i = 0 THEN 0
    ELSE IF a[i] < b[i] THEN -1
    ELSE IF a[i] > b[i] THEN 1
    ELSE CmpFrom(a, b, i - 1)

\* -1, 0 or 1 as a < b, a = b, a > b (both normalised).
Cmp(a, b) ==
    IF Len(a) < Len(b) THEN -1
    ELSE IF Len(a) > Len(b) THEN 1
    ELSE CmpFrom(a, b, Len(a))

Leq(a, b) == Cmp(a, b) <= 0
Lt(a, b) == Cmp(a, b) < 0

Limb(a, i) == IF i <= Len(a) THEN a[i] ELSE 0

RECURSIVE AddFrom(_, _, _, _)
AddFrom(a, b, i, carry) ==
    IF i > Len(a) /\ i > Len(b)
    THEN IF carry = 0 THEN << >> ELSE << carry >>
    ELSE LET s == Limb(a, i) + Limb(b, i) + carry
         IN  << s % LimbBase >> \o AddFrom(a, b, i + 1, s \div LimbBase)

Add(a, b) == AddFrom(a, b, 1, 0)

RECURSIVE SubFrom(_, _, _, _)
SubFrom(a, b, i, borrow) ==
    IF i > Len(a) THEN << >>
    ELSE LET d == a[i] - Limb(b, i) - borrow
         IN  IF d < 0
             THEN << d + LimbBase >> \o SubFrom(a, b, i + 1, 1)
             ELSE << d >> \o SubFrom(a, b, i + 1, 0)

\* a - b, for b <= a.
Sub(a, b) == Norm(SubFrom(a, b, 1, 0))

RECURSIVE MulSmallFrom(_, _, _, _)
MulSmallFrom(a, k, i, carry) ==
    IF i > Len(a)
    THEN IF carry = 0 THEN << >> ELSE << carry >>
    ELSE LET p == a[i] * k + carry
         IN  << p % LimbBase >> \o MulSmallFrom(a, k, i + 1, p \div LimbBase)

\* a * k, for a limb k.
MulSmall(a, k) == IF k = 0 THEN << >> ELSE MulSmallFrom(a, k, 1, 0)

\* a * LimbBase^n.
ShiftLimbs(a, n) == IF a = << >> THEN << >> ELSE [i \in 1..n |-> 0] \o a

RECURSIVE MulFrom(_, _, _)
MulFrom(a, b, j) ==
    IF j > Len(b) THEN << >>
    ELSE Add(ShiftLimbs(MulSmall(a, b[j]), j - 1), MulFrom(a, b, j + 1))

Mul(a, b) == MulFrom(a, b, 1)

RECURSIVE DivSmallFrom(_, _, _, _)
DivSmallFrom(a, k, i, rem) ==
    IF i = 0 THEN << >>
    ELSE LET cur == rem * LimbBase + a[i]
         IN  DivSmallFrom(a, k, i - 1, cur % k) \o << cur \div k >>

\* floor(a / k), for a limb k > 0.
DivSmall(a, k) == Norm(DivSmallFrom(a, k, Len(a), 0))

RECURSIVE BitLenSmall(_)
BitLenSmall(k) == IF k = 0 THEN 0 ELSE 1 + BitLenSmall(k \div 2)

LimbBits == BitLenSmall(LimbBase - 1)

\* Number of significant bits of a.
BitLen(a) ==
    IF a = << >> THEN 0
    ELSE LimbBits * (Len(a) - 1) + BitLenSmall(a[Len(a)])

\* a * 2^n.
ShL(a, n) == ShiftLimbs(MulSmall(a, 2 ^ (n % LimbBits)), n \div LimbBits)

\* floor(a / 2^n).
ShR(a, n) ==
    IF n \div LimbBits >= Len(a) THEN << >>
    ELSE DivSmall(SubSeq(a, n \div LimbBits + 1, Len(a)), 2 ^ (n % LimbBits))

Pow2(n) == ShL(<< 1 >>, n)

IsOdd(a) == a # << >> /\ a[1] % 2 = 1

RECURSIVE PowFrom(_, _, _)
PowFrom(a, k, acc) ==
    IF k = 0 \/ acc = << >> THEN acc ELSE PowFrom(a, k - 1, Mul(acc, a))

\* a^k.
Pow(a, k) == PowFrom(a, k, << 1 >>)

RECURSIVE DigitFrom(_, _, _, _)
\* The largest limb q with d * q <= cur, found bit by bit from bit i down.
DigitFrom(cur, d, q, i) ==
    IF i = 0 THEN q
    ELSE LET t == q + 2 ^ (i - 1)
         IN  IF Leq(MulSmall(d, t), cur) THEN DigitFrom(cur, d, t, i - 1)
             ELSE DigitFrom(cur, d, q, i - 1)

RECURSIVE DivModFrom(_, _, _)
\* Long division: quotient and remainder of floor(a / LimbBase^i) by d.
DivModFrom(a, d, i) ==
    IF i >= Len(a) THEN [quo |-> << >>, rem |-> << >>]
    ELSE LET hi  == DivModFrom(a, d, i + 1)
             cur == Norm(<< a[i + 1] >> \o hi.rem)
             q   == DigitFrom(cur, d, 0, LimbBits)
         IN  [quo |-> Norm(<< q >> \o hi.quo), rem |-> Sub(cur, MulSmall(d, q))]

\* Quotient and remainder of a by d > 0.
DivMod(a, d) == DivModFrom(a, d, 0)

RECURSIVE IsqrtFrom(_, _, _)
\* The largest r with r*r <= a, found bit by bit from bit i down.
IsqrtFrom(a, r, i) ==
    IF i = 0 THEN r
    ELSE LET t == Add(r, Pow2(i - 1))
         IN  IF Leq(Mul(t, t), a) THEN IsqrtFrom(a, t, i - 1)
             ELSE IsqrtFrom(a, r, i - 1)

Isqrt(a) == IsqrtFrom(a, << >>, (BitLen(a) + 1) \div 2)

(***************************************************************************)
(* Integers of the ten primitive types                                     *)
(***************************************************************************)
NativeBits == 64

SignedTypes == {"i8", "i16", "i32", "i64", "isize"}
UnsignedTypes == {"u8", "u16", "u32", "u64", "usize"}
Types == SignedTypes \cup UnsignedTypes

Signed(t) == t \in SignedTypes

Bits(t) ==
    CASE t \in {"i8", "u8"} -> 8
      [] t \in {"i16", "u16"} -> 16
      [] t \in {"i32", "u32"} -> 32
      [] t \in {"i64", "u64"} -> 64
      [] t \in {"isize", "usize"} -> NativeBits

\* An integer: its sign and its magnitude; zero is never negative.
MkInt(neg, mag) == [neg |-> neg /\ mag # << >>, mag |-> mag]
Pos(mag) == MkInt(FALSE, mag)
Neg(mag) == MkInt(TRUE, mag)

IsNeg(x) == x.neg
IsZero(x) == x.mag = << >>

\* x <= y on integers.
IntLeq(x, y) ==
    IF x.neg /\ ~y.neg THEN TRUE
    ELSE IF ~x.neg /\ y.neg THEN FALSE
    ELSE IF x.neg THEN Leq(y.mag, x.mag)
    ELSE Leq(x.mag, y.mag)

\* T::MAX and T::MIN.
MaxOf(t) ==
    IF Signed(t) THEN Pos(Sub(Pow2(Bits(t) - 1), << 1 >>))
    ELSE Pos(Sub(Pow2(Bits(t)), << 1 >>))
MinOf(t) == IF Signed(t) THEN Neg(Pow2(Bits(t) - 1)) ELSE Pos(<< >>)

InRange(x, t) == IntLeq(MinOf(t), x) /\ IntLeq(x, MaxOf(t))

(***************************************************************************)
(* f64: IEEE-754 binary64                                                  *)
(*                                                                         *)
(* A finite value is (-1)^neg * m * 2^e with m = 0 or m of exactly         *)
(* MantBits bits.  Exponent overflow and subnormals cannot arise from the  *)
(* operations below on operands of at most 64 bits.                        *)
(***************************************************************************)
MantBits == 53

Fin(neg, m, e) == [cls |-> "fin", neg |-> neg, m |-> m, e |-> e]
FZero(neg) == Fin(neg, << >>, 0)
Inf(neg) == [cls |-> "inf", neg |-> neg, m |-> << >>, e |-> 0]
NaN == [cls |-> "nan", neg |-> FALSE, m |-> << >>, e |-> 0]

\* The f64 nearest to n * 2^e (n > 0), ties to even; sticky says that the
\* exact value lies strictly above n * 2^e (and below (n+1) * 2^e).
RoundF64(neg, n, e, sticky) ==
    LET len == BitLen(n)
    IN  IF len <= MantBits
        THEN Fin(neg, ShL(n, MantBits - len), e - (MantBits - len))
        ELSE LET s    == len - MantBits
                 q    == ShR(n, s)
                 r    == Sub(n, ShL(q, s))
                 c    == Cmp(r, Pow2(s - 1))
                 up   == c > 0 \/ (c = 0 /\ (sticky \/ IsOdd(q)))
                 q1   == IF up THEN Add(q, << 1 >>) ELSE q
             IN  IF BitLen(q1) > MantBits
                 THEN Fin(neg, ShR(q1, 1), e + s + 1)
                 ELSE Fin(neg, q1, e + s)

\* `self as f64`.
IntToF64(x) ==
    IF IsZero(x) THEN FZero(FALSE) ELSE RoundF64(x.neg, x.mag, 0, FALSE)

\* The integer part of the magnitude of a finite f.
TruncMag(f) == IF f.e >= 0 THEN ShL(f.m, f.e) ELSE ShR(f.m, 0 - f.e)

\* Mutant of F64ToInt: rounds a fractional value away from zero.
F64ToIntCeil(f, t) ==
    IF f.cls = "nan" THEN Pos(<< >>)
    ELSE IF f.cls = "inf" THEN (IF f.neg THEN MinOf(t) ELSE MaxOf(t))
    ELSE LET whole == TruncMag(f)
             frac  == f.e < 0 /\ ShL(whole, 0 - f.e) # f.m
             v     == MkInt(f.neg, IF frac THEN Add(whole, << 1 >>) ELSE whole)
         IN  IF ~IntLeq(MinOf(t), v) THEN MinOf(t)
             ELSE IF ~IntLeq(v, MaxOf(t)) THEN MaxOf(t)
             ELSE v

\* `f as $t`: toward zero, saturating, NaN to 0.
F64ToInt(f, t) ==
    IF f.cls = "nan" THEN Pos(<< >>)
    ELSE IF f.cls = "inf" THEN (IF f.neg THEN MinOf(t) ELSE MaxOf(t))
    ELSE LET v == MkInt(f.neg, TruncMag(f))
         IN  IF ~IntLeq(MinOf(t), v) THEN MinOf(t)
             ELSE IF ~IntLeq(v, MaxOf(t)) THEN MaxOf(t)
             ELSE v

\* f64::sqrt, correctly rounded; called on values >= 0 only.
F64Sqrt(f) ==
    IF f.cls # "fin" \/ f.m = << >> THEN f
    ELSE LET odd  == f.e % 2 # 0
             m2   == IF odd THEN ShL(f.m, 1) ELSE f.m
             e2   == IF odd THEN f.e - 1 ELSE f.e
             wide == ShL(m2, 2 * (MantBits \div 2 + 2))
             root == Isqrt(wide)
         IN  RoundF64(FALSE, root, e2 \div 2 - (MantBits \div 2 + 2),
                      Mul(root, root) # wide)

\* a / b on f64.
F64Div(a, b) ==
    LET neg == a.neg # b.neg
    IN  IF a.cls = "nan" \/ b.cls = "nan" THEN NaN
        ELSE IF a.cls = "inf" THEN (IF b.cls = "inf" THEN NaN ELSE Inf(neg))
        ELSE IF b.cls = "inf" THEN FZero(neg)
        ELSE IF b.m = << >> THEN (IF a.m = << >> THEN NaN ELSE Inf(neg))
        ELSE IF a.m = << >> THEN FZero(neg)
        ELSE LET d == DivMod(ShL(a.m, MantBits + 3), b.m)
             IN  RoundF64(neg, d.quo, a.e - b.e - (MantBits + 3),
                          d.rem # << >>)

(***************************************************************************)
(* libm: f64::ln and f64::cbrt                                             *)
(*                                                                         *)
(* Rows << v, m, e >>: the function at the integral f64 v returns          *)
(* m * 2^e.  The ln rows are the correctly rounded values; the cbrt rows   *)
(* are glibc's, which is not correctly rounded on every perfect cube.      *)
(***************************************************************************)
LnRows ==
  {
    << << 1 >>, << >>, 0 >>,
    << << 2 >>, << 14831, 32244, 14603, 177 >>, -53 >>,
    << << 3 >>, << 779, 30042, 20393, 140 >>, -52 >>,
    << << 4 >>, << 14831, 32244, 14603, 177 >>, -52 >>,
    << << 5 >>, << 3379, 28635, 263, 206 >>, -52 >>,
    << << 6 >>, << 8194, 29780, 11311, 229 >>, -52 >>,
    << << 7 >>, << 23127, 23652, 2506, 249 >>, -52 >>,
    << << 8 >>, << 11123, 32375, 2760, 133 >>, -51 >>,
    << << 9 >>, << 779, 30042, 20393, 140 >>, -51 >>,
    << << 10 >>, << 21782, 30570, 11974, 147 >>, -51 >>,
    << << 11 >>, << 14156, 28414, 15246, 153 >>, -51 >>,
    << << 12 >>, << 7805, 31143, 1114, 159 >>, -51 >>,
    << << 13 >>, << 3153, 22115, 5136, 164 >>, -51 >>,
    << << 14 >>, << 15271, 11695, 29480, 168 >>, -51 >>,
    << << 15 >>, << 18463, 29338, 10328, 173 >>, -51 >>,
    << << 16 >>, << 14831, 32244, 14603, 177 >>, -51 >>,
    << << 27 >>, << 1168, 28679, 30590, 210 >>, -51 >>,
    << << 63 >>, << 6171, 20934, 19015, 132 >>, -50 >>,
    << << 64 >>, << 11123, 32375, 2760, 133 >>, -50 >>,
    << << 113 >>, << 860, 13415, 9057, 151 >>, -50 >>,
    << << 125 >>, << 10727, 29668, 16581, 154 >>, -50 >>,
    << << 127 >>, << 11842, 10432, 458, 155 >>, -50 >>,
    << << 243 >>, << 17357, 12976, 25492, 175 >>, -50 >>,
    << << 247 >>, << 8127, 12598, 9844, 176 >>, -50 >>,
    << << 255 >>, << 25548, 31559, 10499, 177 >>, -50 >>,
    << << 891 >>, << 7856, 11481, 11633, 217 >>, -50 >>,
    << << 1000 >>, << 32672, 13087, 1578, 221 >>, -50 >>,
    << << 1024 >>, << 18539, 32113, 26446, 221 >>, -50 >>,
    << << 3375 >>, << 30231, 22003, 32322, 129 >>, -49 >>,
    << << 32767 >>, << 5707, 7693, 11627, 166 >>, -49 >>,
    << << 32767, 1 >>, << 14831, 32242, 14595, 177 >>, -49 >>,
    << << 32767, 32767, 1 >>, << 26656, 19968, 29507, 171 >>, -48 >>,
    << << 32767, 32767, 3 >>, << 14831, 32242, 14603, 177 >>, -48 >>,
    << << 0, 4096, 0, 128 >>, << 20242, 24278, 5721, 144 >>, -47 >>,
    << << 0, 0, 0, 256 >>, << 14330, 30286, 31037, 146 >>, -47 >>,
    << << 0, 0, 0, 0, 8 >>, << 20743, 26108, 22055, 174 >>, -47 >>,
    << << 0, 0, 0, 0, 16 >>, << 14831, 32244, 14603, 177 >>, -47 >>
  }

CbrtRows ==
  {
    << << >>, << >>, 0 >>,
    << << 1 >>, << 0, 0, 0, 128 >>, -52 >>,
    << << 2 >>, << 29324, 29466, 8843, 161 >>, -52 >>,
    << << 3 >>, << 16118, 4644, 19921, 184 >>, -52 >>,
    << << 4 >>, << 28221, 19066, 6138, 203 >>, -52 >>,
    << << 5 >>, << 17619, 31229, 28734, 218 >>, -52 >>,
    << << 6 >>, << 8830, 5603, 19380, 232 >>, -52 >>,
    << << 7 >>, << 6303, 29872, 28022, 244 >>, -52 >>,
    << << 8 >>, << 0, 0, 0, 128 >>, -51 >>,
    << << 9 >>, << 4760, 31119, 4107, 133 >>, -51 >>,
    << << 10 >>, << 28750, 624, 28961, 137 >>, -51 >>,
    << << 11 >>, << 6726, 9663, 10968, 142 >>, -51 >>,
    << << 12 >>, << 756, 17249, 17151, 146 >>, -51 >>,
    << << 13 >>, << 12335, 7963, 15906, 150 >>, -51 >>,
    << << 14 >>, << 14422, 21941, 8162, 154 >>, -51 >>,
    << << 15 >>, << 32605, 19139, 27445, 157 >>, -51 >>,
    << << 16 >>, << 29324, 29466, 8843, 161 >>, -51 >>,
    << << 27 >>, << 1, 0, 0, 192 >>, -51 >>,
    << << 63 >>, << 8167, 25613, 21615, 254 >>, -51 >>,
    << << 64 >>, << 0, 0, 0, 128 >>, -50 >>,
    << << 113 >>, << 19499, 2620, 23161, 154 >>, -50 >>,
    << << 125 >>, << 0, 0, 0, 160 >>, -50 >>,
    << << 127 >>, << 14, 6799, 27814, 160 >>, -50 >>,
    << << 243 >>, << 23526, 30294, 22545, 199 >>, -50 >>,
    << << 247 >>, << 19283, 473, 25486, 200 >>, -50 >>,
    << << 255 >>, << 9882, 30895, 30225, 202 >>, -50 >>,
    << << 891 >>, << 18093, 9057, 31511, 153 >>, -49 >>,
    << << 1000 >>, << 0, 0, 0, 160 >>, -49 >>,
    << << 1024 >>, << 29324, 29466, 8843, 161 >>, -49 >>,
    << << 3375 >>, << 32767, 32767, 32767, 239 >>, -49 >>,
    << << 32767 >>, << 29111, 21816, 32682, 255 >>, -48 >>,
    << << 32767, 1 >>, << 25075, 681, 8817, 161 >>, -47 >>,
    << << 32767, 32767, 1 >>, << 543, 29440, 8843, 161 >>, -42 >>,
    << << 32767, 32767, 3 >>, << 30440, 19049, 6138, 203 >>, -42 >>,
    << << 0, 4096, 0, 128 >>, << 3508, 31187, 8843, 161 >>, -35 >>,
    << << 0, 0, 0, 256 >>, << 28221, 19066, 6138, 203 >>, -35 >>,
    << << 0, 0, 0, 0, 8 >>, << 0, 0, 0, 128 >>, -31 >>,
    << << 0, 0, 0, 0, 16 >>, << 29324, 29466, 8843, 161 >>, -31 >>
  }

Row(rows, v) == CHOOSE r \in rows : r[1] = v

\* f64::ln at an integral f >= 0.
F64Ln(f) ==
    IF f.m = << >> THEN Inf(TRUE)
    ELSE LET r == Row(LnRows, TruncMag(f))
         IN  Fin(FALSE, r[2], r[3])

\* f64::cbrt at an integral f >= 0.
F64Cbrt(f) ==
    IF f.m = << >> THEN f
    ELSE LET r == Row(CbrtRows, TruncMag(f))
         IN  Fin(FALSE, r[2], r[3])

\* Mutant of F64Log: the operands of the division swapped.
F64LogSwapped(f, base) == F64Div(F64Ln(base), F64Ln(f))

\* f64::log(self, base) is self.ln() / base.ln().
F64Log(f, base) == F64Div(F64Ln(f), F64Ln(base))

(***************************************************************************)
(* impl IntTraits<$t> for $t                                               *)
(***************************************************************************)
\* The outcome of a call: a panic, or a value of $t.
Panic == [panic |-> TRUE, val |-> Pos(<< >>)]
Ret(v) == [panic |-> FALSE, val |-> v]

\* Mutant of int_sqrt: the guard of log, `self <= 0`.
int_sqrt_le(t, self) ==
    IF IsNeg(self) \/ IsZero(self) THEN Panic
    ELSE Ret(F64ToInt(F64Sqrt(IntToF64(self)), t))

\* impl_int_trait!($t)
int_sqrt(t, self) ==
    IF IsNeg(self) THEN Panic
    ELSE Ret(F64ToInt(F64Sqrt(IntToF64(self)), t))

\* Mutant of int_cbrt: the guard of log, `self <= 0`.
int_cbrt_le(t, self) ==
    IF IsNeg(self) \/ IsZero(self) THEN Panic
    ELSE Ret(F64ToInt(F64Cbrt(IntToF64(self)), t))

int_cbrt(t, self) ==
    IF IsNeg(self) THEN Panic
    ELSE Ret(F64ToInt(F64Cbrt(IntToF64(self)), t))

\* Mutant of int_log: the guard of sqrt, `self < 0`.
int_log_lt(t, self, n) ==
    IF IsNeg(self) THEN Panic
    ELSE Ret(F64ToInt(F64Log(IntToF64(self), IntToF64(Pos(n))), t))

int_log(t, self, n) ==
    IF IsNeg(self) \/ IsZero(self) THEN Panic
    ELSE Ret(F64ToInt(F64Log(IntToF64(self), IntToF64(Pos(n))), t))

\* impl_uint_trait!($t)
uint_sqrt(t, self) == Ret(F64ToInt(F64Sqrt(IntToF64(self)), t))

uint_cbrt(t, self) == Ret(F64ToInt(F64Cbrt(IntToF64(self)), t))

\* Mutant of uint_log: the guard off by one, `self <= 1`.
uint_log_le1(t, self, n) ==
    IF Leq(self.mag, << 1 >>) THEN Panic
    ELSE Ret(F64ToInt(F64Log(IntToF64(self), IntToF64(Pos(n))), t))

uint_log(t, self, n) ==
    IF IsZero(self) THEN Panic
    ELSE Ret(F64ToInt(F64Log(IntToF64(self), IntToF64(Pos(n))), t))

\* Dispatch on the implementing type.
sqrt(t, self) == IF Signed(t) THEN int_sqrt(t, self) ELSE uint_sqrt(t, self)
cbrt(t, self) == IF Signed(t) THEN int_cbrt(t, self) ELSE uint_cbrt(t, self)
log(t, self, n) ==
    IF Signed(t) THEN int_log(t, self, n) ELSE uint_log(t, self, n)

\* The provided methods of the trait.
Ten == N(10)
Two == N(2)
log10(t, self) == log(t, self, Ten)
\* Mutant of log2: the base its doc comment names, 10.
log2_base10(t, self) == log(t, self, Ten)
log2(t, self) == log(t, self, Two)

(***************************************************************************)
(* The calls                                                               *)
(***************************************************************************)
MaxSmall == 10
MaxNeg == 2
MaxBase == 5

U64Max == Sub(Pow2(64), << 1 >>)

\* Magnitudes tried besides 0..MaxSmall: the values of the crate's tests,
\* exact powers, and operands near the limits of f64's exact integers.
Landmarks ==
    {N(27), N(63), N(64), N(113), N(125), N(243), N(247), N(891), N(1000),
     N(1024), N(3375),
     Sub(Mul(Add(Pow2(26), << 1 >>), Add(Pow2(26), << 1 >>)), << 1 >>),
     Add(Pow2(MantBits), << 1 >>)}

Candidates ==
    {Pos(N(k)) : k \in 0..MaxSmall} \cup {Neg(N(k)) : k \in 1..MaxNeg}
    \cup {Pos(v) : v \in Landmarks} \cup {Neg(N(5))}
    \cup {MaxOf(t) : t \in Types} \cup {MinOf(t) : t \in Types}

Operands(t) == {x \in Candidates : InRange(x, t)}

Bases == {N(k) : k \in 0..MaxBase} \cup {Ten, U64Max}

VARIABLES ty, self, n, op, out
vars == << ty, self, n, op, out >>

\* A value of some type, no method called on it yet.
Init ==
    /\ ty \in Types
    /\ self \in Operands(ty)
    /\ n = << >>
    /\ op = "none"
    /\ out = Ret(Pos(<< >>))

Sqrt ==
    /\ op = "none"
    /\ op' = "sqrt"
    /\ out' = sqrt(ty, self)
    /\ UNCHANGED << ty, self, n >>

Cbrt ==
    /\ op = "none"
    /\ op' = "cbrt"
    /\ out' = cbrt(ty, self)
    /\ UNCHANGED << ty, self, n >>

Log ==
    /\ op = "none"
    /\ \E base \in Bases :
        /\ n' = base
        /\ out' = log(ty, self, base)
    /\ op' = "log"
    /\ UNCHANGED << ty, self >>

Log10 ==
    /\ op = "none"
    /\ op' = "log10"
    /\ n' = Ten
    /\ out' = log10(ty, self)
    /\ UNCHANGED << ty, self >>

Log2 ==
    /\ op = "none"
    /\ op' = "log2"
    /\ n' = Two
    /\ out' = log2(ty, self)
    /\ UNCHANGED << ty, self >>

Next == Sqrt \/ Cbrt \/ Log \/ Log10 \/ Log2

Spec == Init /\ [][Next]_vars

(***************************************************************************)
(* Properties                                                              *)
(***************************************************************************)
IsRoot(o) == o \in {"sqrt", "cbrt"}
IsLog(o) == o \in {"log", "log10", "log2"}
Positive(x) == ~IsNeg(x) /\ ~IsZero(x)
One == << 1 >>

\* Below this every integer has an exact f64 neighbourhood fine enough for
\* the truncation of a correctly rounded root to be the floored root.
ExactLimit == Pow2(MantBits - 1)

\* r is the floored k-th root of x.
FlooredRoot(r, x, k) ==
    Leq(Pow(r, k), x) /\ Lt(x, Pow(Add(r, One), k))

\* r is the floored root of x or one off it.
NearRoot(r, x, k) ==
    /\ Lt(x, Pow(Add(r, N(2)), k))
    /\ r = << >> \/ Leq(Pow(Sub(r, One), k), x)

\* k is the floored base-b logarithm of x.
FlooredLog(k, x, b) ==
    Leq(Pow(b, k), x) /\ Lt(x, Pow(b, k + 1))

RECURSIVE PowerIndexFrom(_, _, _, _)
PowerIndexFrom(x, b, p, k) ==
    IF p = x THEN k
    ELSE IF Lt(x, p) \/ k < 0 THEN -1
    ELSE PowerIndexFrom(x, b, Mul(p, b), k + 1)

\* The k with x = b^k, or -1 when x is no power of b > 1.
PowerIndex(x, b) == PowerIndexFrom(x, b, << 1 >>, 0)

RECURSIVE SmallOf(_, _)
\* The machine integer of a Big of at most two limbs.
SmallOf(a, i) ==
    IF i > Len(a) THEN 0 ELSE a[i] + LimbBase * SmallOf(a, i + 1)

C2_CbrtFloored ==
    (op = "cbrt" /\ ~IsNeg(self)) =>
        /\ ~out.panic
        /\ ~IsNeg(out.val)
        /\ FlooredRoot(out.val.mag, self.mag, 3)

\* C3: log of x > 0 to a base > 1 returns the floored logarithm, k with
\* base^k <= x < base^(k+1).
C3_LogFloored ==
    (op = "log" /\ Positive(self) /\ Lt(One, n)) =>
        /\ ~out.panic
        /\ ~IsNeg(out.val)
        /\ Len(out.val.mag) <= 1
        /\ FlooredLog(SmallOf(out.val.mag, 1), self.mag, n)

\* C4: log, log10 and log2 panic exactly when the operand is <= 0, on
\* signed and unsigned types alike and whatever the base.
C4_LogPanicsIffNonPositive ==
    IsLog(op) => (out.panic <=> ~Positive(self))

C4_Witness ==
    /\ op = "log" /\ ty = "u8" /\ n = N(5)
    /\ IsZero(self) /\ out.panic

\* C5: sqrt and cbrt panic exactly when the operand is negative, which no
\* operand of an unsigned type is.
C5_RootPanicsIffNegative ==
    IsRoot(op) =>
        /\ out.panic <=> IsNeg(self)
        /\ ~Signed(ty) => ~out.panic

C5_Witness ==
    /\ op = "sqrt" /\ ty = "i32"
    /\ self = Neg(One) /\ out.panic

C7_LogOfPower ==
    (IsLog(op) /\ Positive(self) /\ Lt(One, n)) =>
        LET k == PowerIndex(self.mag, n)
        IN  k >= 0 => out = Ret(Pos(N(k)))

\* C8: sqrt(0) and cbrt(0) return 0 on every type, without panicking.
C8_RootOfZero ==
    (IsRoot(op) /\ IsZero(self)) => out = Ret(Pos(<< >>))

C8_Witness ==
    /\ op = "cbrt" /\ ty = "isize"
    /\ IsZero(self) /\ out = Ret(Pos(<< >>))

\* C9: log of x > 0 returns a value of the type for every base, the
\* degenerate bases 0 and 1 included.
C9_LogTotalOnPositive ==
    (op = "log" /\ Positive(self)) =>
        /\ ~out.panic
        /\ InRange(out.val, ty)

C9_Witness ==
    /\ op = "log" /\ ty = "u32" /\ n = One
    /\ self = Pos(N(2)) /\ out = Ret(MaxOf("u32"))

\* C10: the result never leaves the range of the operand's type:
\* 0 <= sqrt(x) <= x and 0 <= cbrt(x) <= x for x >= 0, and
\* 0 <= log(x, base) < x for x > 0 and base > 1.
C10_ResultWithinOperand ==
    /\ (IsRoot(op) /\ ~IsNeg(self)) =>
        /\ ~out.panic
        /\ ~IsNeg(out.val)
        /\ Leq(out.val.mag, self.mag)
    /\ (IsLog(op) /\ Positive(self) /\ Lt(One, n)) =>
        /\ ~out.panic
        /\ ~IsNeg(out.val)
        /\ Lt(out.val.mag, self.mag)

C10_Witness ==
    /\ op = "log" /\ ty = "u64" /\ n = N(2)
    /\ self = MaxOf("u64") /\ out = Ret(Pos(N(64)))

====
